---- MODULE Spec2Model ----
(***************************************************************************)
(* Model of basin_hopping/filter_results.py: the significant-figure        *)
(* deduplication of local minima (filter_local_minima), the file driver    *)
(* (filter_trajectory) and the command-line entry point (main).            *)
(*                                                                         *)
(* Potential energies are fixed-point decimals: the integer e stands for   *)
(* the energy e * 10^-Scale, so -1020 is -1.020 when Scale = 3.  Decimal   *)
(* rounding is computed exactly (round half to even).                      *)
(***************************************************************************)
EXTENDS Integers, Sequences, FiniteSets, TLC

\* ---------------------------------------------------------------- bounds
MaxLen == 3
MaxSig == 3
Scale == 3

\* default of --significant-figures
DefaultSig == 2

\* energies the input structures draw from: two pairs that straddle a
\* rounding boundary, three values of one bucket, a value of another order
\* of magnitude, zero and a positive value
Energies == {-2510, -2500, -1020, -1002, -1001, -99, 0, 1500}

\* the energies of the scenario with four structures
Scenario == <<-1001, -1002, -1020, -2500>>

Paths == {"in.traj", "out.traj"}

\* ---------------------------------------------------------------- values
\* Python values that travel through main's call: None, a str, an int
NoneVal == [t |-> "none", i |-> 0, s |-> ""]
StrVal(p) == [t |-> "str", i |-> 0, s |-> p]
IntVal(n) == [t |-> "int", i |-> n, s |-> ""]

\* ------------------------------------------------------- pure arithmetic
Abs(n) == IF n < 0 THEN -n ELSE n

RECURSIVE Pow10(_)
Pow10(k) == IF k <= 0 THEN 1 ELSE 10 * Pow10(k - 1)

RECURSIVE Digits(_)
Digits(n) == IF n < 10 THEN 1 ELSE 1 + Digits(n \div 10)

\* floor(log10(|energy|)) of the decimal e * 10^-Scale
order_of_magnitudes(e) == Digits(Abs(e)) - 1 - Scale

\* the most significant digit taken one place too far to the left
positions_msd_shifted(e) == -(order_of_magnitudes(e) + 2)

positions_msd(e) == -(order_of_magnitudes(e) + 1)

rounding(e, significant_figures) == positions_msd(e) + significant_figures

\* round(energy, d): round half to even at d decimal places (d may be
\* negative); with d >= Scale every decimal of the energy is kept
round(e, d) ==
    IF d >= Scale THEN e
    ELSE LET q == Pow10(Scale - d)
             a == Abs(e)
             k == a \div q
             r == a - k * q
             up == (2 * r > q) \/ (2 * r = q /\ k % 2 = 1)
             m == IF up THEN (k + 1) * q ELSE k * q
         IN  IF e < 0 THEN -m ELSE m

rounded_energy(e, significant_figures) ==
    round(e, rounding(e, significant_figures))

\* ------------------------------------------------------------ structures
\* a structure is an opaque object with an identity and a potential energy
Atoms(id, e) == [id |-> id, energy |-> e]

get_potential_energy(a) == a.energy

MakeTrajectory(es) == [i \in 1..Len(es) |-> Atoms(i, es[i])]

\* stable insertion: x goes after every element whose energy is <= its own
RECURSIVE Insert(_, _)
Insert(x, s) ==
    IF s = << >> THEN <<x>>
    ELSE IF get_potential_energy(Head(s)) <= get_potential_energy(x)
         THEN <<Head(s)>> \o Insert(x, Tail(s))
         ELSE <<x>> \o s

\* sorted(atoms, key=get_potential_energy): ascending and stable
RECURSIVE sorted(_)
sorted(atoms) ==
    IF atoms = << >> THEN << >>
    ELSE Insert(atoms[Len(atoms)], sorted(SubSeq(atoms, 1, Len(atoms) - 1)))

\* the sign filter with the threshold at -1 instead of 0
negative_only_below_one(atoms) ==
    SelectSeq(atoms, LAMBDA a : get_potential_energy(a) < -Pow10(Scale))

\* the sign filter that lets zero through
negative_only_or_zero(atoms) == SelectSeq(atoms, LAMBDA a : get_potential_energy(a) <= 0)

\* _atoms[potential_energies < 0]
negative_only(atoms) == SelectSeq(atoms, LAMBDA a : get_potential_energy(a) < 0)

potential_energies_of(atoms) ==
    [i \in 1..Len(atoms) |-> get_potential_energy(atoms[i])]

rounded(atoms, significant_figures) ==
    [i \in 1..Len(atoms) |->
        rounded_energy(get_potential_energy(atoms[i]), significant_figures)]

Min(S) == CHOOSE x \in S : \A y \in S : x <= y

RECURSIVE SortedSeqOf(_)
SortedSeqOf(S) ==
    IF S = {} THEN << >>
    ELSE LET m == Min(S) IN <<m>> \o SortedSeqOf(S \ {m})

Max(S) == CHOOSE x \in S : \A y \in S : x >= y

\* the index of the last occurrence of each distinct value
unique_indexes_last(r) ==
    LET vals == SortedSeqOf({r[i] : i \in DOMAIN r})
    IN  [j \in 1..Len(vals) |-> Max({i \in DOMAIN r : r[i] = vals[j]})]

\* the distinct values ordered by magnitude, as np.unique(np.abs(r)) would
unique_indexes_abs(r) ==
    LET vals == SortedSeqOf({Abs(r[i]) : i \in DOMAIN r})
    IN  [j \in 1..Len(vals) |-> Min({i \in DOMAIN r : Abs(r[i]) = vals[j]})]

\* np.unique(r, return_index=True)[1]: for each distinct value of r, in
\* ascending order of the values, the index of its first occurrence
unique_indexes(r) ==
    LET vals == SortedSeqOf({r[i] : i \in DOMAIN r})
    IN  [j \in 1..Len(vals) |-> Min({i \in DOMAIN r : r[i] = vals[j]})]

\* the first len(indexes) structures instead of the structures at indexes
unique_prefix(atoms, significant_figures) ==
    LET indexes == unique_indexes(rounded(atoms, significant_figures))
    IN  [j \in 1..Len(indexes) |-> atoms[j]]

\* np.unique over the unrounded energies
unique_unrounded(atoms, significant_figures) ==
    LET indexes == unique_indexes(potential_energies_of(atoms))
    IN  [j \in 1..Len(indexes) |-> atoms[indexes[j]]]

\* _atoms[indexes] after np.unique
unique(atoms, significant_figures) ==
    LET indexes == unique_indexes(rounded(atoms, significant_figures))
    IN  [j \in 1..Len(indexes) |-> atoms[indexes[j]]]

filter_local_minima(atoms, significant_figures) ==
    unique(negative_only(sorted(atoms)), significant_figures)

\* ----------------------------------------------------------------- state
VARIABLES
    pc,                 \* position in main / filter_trajectory
    entry,              \* "cli": through main; "call": filter_trajectory called directly
    kwargs,             \* the parsed options (or the caller's arguments)
    args,               \* filter_trajectory's parameters input, significant_figures, output
    files,              \* the file system: path -> [exists, data]
    handles,            \* state of the input and of the output trajectory handle
    f_atoms,            \* _atoms after sorting and the sign filter
    potential_energies, \* potential_energies after the sign filter
    atoms,              \* the array returned by filter_local_minima
    written,            \* number of structures written to the output
    error,              \* the exception that ended the run, "" when none
    orig                \* contents of the input file when the run started

vars == <<pc, entry, kwargs, args, files, handles, f_atoms,
          potential_energies, atoms, written, error, orig>>

RECURSIVE SeqsUpTo(_, _)
SeqsUpTo(S, n) ==
    IF n = 0 THEN {<< >>}
    ELSE LET shorter == SeqsUpTo(S, n - 1)
         IN  shorter \cup {Append(s, x) : s \in {t \in shorter : Len(t) = n - 1}, x \in S}

Inputs == SeqsUpTo(Energies, MaxLen) \cup {Scenario}

NoFile == [exists |-> FALSE, data |-> << >>]
FileOf(data) == [exists |-> TRUE, data |-> data]

Init ==
    /\ \E es \in Inputs, present \in BOOLEAN :
          /\ present \/ es = << >>
          /\ orig = MakeTrajectory(es)
          /\ files = [p \in Paths |->
                         IF p = "in.traj" /\ present
                         THEN FileOf(MakeTrajectory(es)) ELSE NoFile]
    /\ entry \in {"cli", "call"}
    /\ \E o \in {NoneVal, StrVal("out.traj")}, n \in 1..MaxSig \cup {DefaultSig} :
          kwargs = [input |-> StrVal("in.traj"),
                    significant_figures |-> IntVal(n),
                    output |-> o]
    /\ IF entry = "call"
       THEN pc = "filter_trajectory" /\ args = kwargs
       ELSE pc = "main" /\
            args = [input |-> NoneVal, significant_figures |-> NoneVal, output |-> NoneVal]
    /\ handles = [in |-> "unopened", out |-> "unopened"]
    /\ f_atoms = << >>
    /\ potential_energies = << >>
    /\ atoms = << >>
    /\ written = 0
    /\ error = ""

\* -------------------------------------------------------------- actions
\* main: the three values are passed positionally, in the order
\* input, output, significant_figures
main ==
    /\ pc = "main"
    /\ args' = [input |-> kwargs.input,
                significant_figures |-> kwargs.output,
                output |-> kwargs.significant_figures]
    /\ pc' = "filter_trajectory"
    /\ UNCHANGED <<entry, kwargs, files, handles, f_atoms,
                   potential_energies, atoms, written, error, orig>>

\* if output is None: output = input
DefaultOutput ==
    /\ pc = "filter_trajectory"
    /\ args' = [args EXCEPT !.output =
                   IF args.output.t = "none" THEN args.input ELSE args.output]
    /\ pc' = "open_input"
    /\ UNCHANGED <<entry, kwargs, files, handles, f_atoms,
                   potential_energies, atoms, written, error, orig>>

\* trajectory = Trajectory(input)
OpenInput ==
    /\ pc = "open_input"
    /\ files[args.input.s].exists
    /\ handles' = [handles EXCEPT !.in = "open"]
    /\ pc' = "sort_filter"
    /\ UNCHANGED <<entry, kwargs, args, files, f_atoms,
                   potential_energies, atoms, written, error, orig>>

OpenInputFails ==
    /\ pc = "open_input"
    /\ ~files[args.input.s].exists
    /\ error' = "FileNotFoundError"
    /\ pc' = "failed"
    /\ UNCHANGED <<entry, kwargs, args, files, handles, f_atoms,
                   potential_energies, atoms, written, orig>>

\* filter_local_minima, sorting and sign filter, on trajectory[:]
SortAndFilter ==
    /\ pc = "sort_filter"
    /\ LET kept == negative_only(sorted(files[args.input.s].data))
       IN  /\ f_atoms' = kept
           /\ potential_energies' = potential_energies_of(kept)
    /\ pc' = "rounding"
    /\ UNCHANGED <<entry, kwargs, args, files, handles, atoms, written, error, orig>>

\* filter_local_minima, rounding and uniqueness.  With significant_figures
\* None and no energy left, positions_msd + None adds nothing and may go
\* through; the result is then the empty array.
RoundAndUnique ==
    /\ pc = "rounding"
    /\ \/ /\ args.significant_figures.t = "int"
          /\ atoms' = unique(f_atoms, args.significant_figures.i)
       \/ /\ args.significant_figures.t = "none"
          /\ f_atoms = << >>
          /\ atoms' = << >>
    /\ pc' = "close_input"
    /\ UNCHANGED <<entry, kwargs, args, files, handles, f_atoms,
                   potential_energies, written, error, orig>>

\* positions_msd + significant_figures raises when significant_figures is
\* not a number
RoundingRaises ==
    /\ pc = "rounding"
    /\ args.significant_figures.t # "int"
    /\ error' = "TypeError"
    /\ pc' = "failed"
    /\ UNCHANGED <<entry, kwargs, args, files, handles, f_atoms,
                   potential_energies, atoms, written, orig>>

\* trajectory.close() of the input
CloseInput ==
    /\ pc = "close_input"
    /\ handles' = [handles EXCEPT !.in = "closed"]
    /\ pc' = "open_output"
    /\ UNCHANGED <<entry, kwargs, args, files, f_atoms,
                   potential_energies, atoms, written, error, orig>>

\* the output opened in append mode: an existing file is not truncated
OpenOutput_append ==
    /\ pc = "open_output"
    /\ args.output.t = "str"
    /\ files' = [files EXCEPT ![args.output.s] = FileOf(@.data)]
    /\ handles' = [handles EXCEPT !.out = "open"]
    /\ pc' = "write"
    /\ UNCHANGED <<entry, kwargs, args, f_atoms,
                   potential_energies, atoms, written, error, orig>>

\* trajectory = Trajectory(output, 'w'): creates or truncates the file
OpenOutput ==
    /\ pc = "open_output"
    /\ args.output.t = "str"
    /\ files' = [files EXCEPT ![args.output.s] = FileOf(<< >>)]
    /\ handles' = [handles EXCEPT !.out = "open"]
    /\ pc' = "write"
    /\ UNCHANGED <<entry, kwargs, args, f_atoms,
                   potential_energies, atoms, written, error, orig>>

\* the output path is not a path, or it cannot be opened for writing
OpenOutputFails ==
    /\ pc = "open_output"
    /\ error' = IF args.output.t = "str" THEN "PermissionError" ELSE "TypeError"
    /\ pc' = "failed"
    /\ UNCHANGED <<entry, kwargs, args, files, handles, f_atoms,
                   potential_energies, atoms, written, orig>>

\* for a in atoms: trajectory.write(a)
Write ==
    /\ pc = "write"
    /\ written < Len(atoms)
    /\ files' = [files EXCEPT ![args.output.s].data = Append(@, atoms[written + 1])]
    /\ written' = written + 1
    /\ UNCHANGED <<pc, entry, kwargs, args, handles, f_atoms,
                   potential_energies, atoms, error, orig>>

\* a write raises; what was written stays
WriteFails ==
    /\ pc = "write"
    /\ written < Len(atoms)
    /\ error' = "OSError"
    /\ pc' = "failed"
    /\ UNCHANGED <<entry, kwargs, args, files, handles, f_atoms,
                   potential_energies, atoms, written, orig>>

\* trajectory.close() of the output
CloseOutput ==
    /\ pc = "write"
    /\ written = Len(atoms)
    /\ handles' = [handles EXCEPT !.out = "closed"]
    /\ pc' = "done"
    /\ UNCHANGED <<entry, kwargs, args, files, f_atoms,
                   potential_energies, atoms, written, error, orig>>

Next ==
    \/ main
    \/ DefaultOutput
    \/ OpenInput
    \/ OpenInputFails
    \/ SortAndFilter
    \/ RoundAndUnique
    \/ RoundingRaises
    \/ CloseInput
    \/ OpenOutput
    \/ OpenOutputFails
    \/ Write
    \/ WriteFails
    \/ CloseOutput

Spec == Init /\ [][Next]_vars

\* ------------------------------------------------------- claim vocabulary
\* filter_local_minima has returned into atoms
Returned ==
    /\ args.significant_figures.t = "int"
    /\ pc \in {"close_input", "open_output", "write", "done"}

sig == args.significant_figures.i

Energy(seq) == [i \in 1..Len(seq) |-> get_potential_energy(seq[i])]

Bucket(a) == rounded_energy(get_potential_energy(a), sig)

RECURSIVE StripZeros(_)
StripZeros(n) == IF n > 0 /\ n % 10 = 0 THEN StripZeros(n \div 10) ELSE n

\* number of significant decimal digits of an energy
SigDigits(e) == Digits(StripZeros(Abs(e)))

NegativeEnergies(seq) == {seq[i].energy : i \in {k \in 1..Len(seq) : seq[k].energy < 0}}

\* C1: main hands the parsed input, significant_figures and output to the
\* driver's parameters of the same names.
C1_MainPassesOptions ==
    (entry = "cli" /\ pc = "filter_trajectory") =>
        /\ args.input = kwargs.input
        /\ args.significant_figures = kwargs.significant_figures
        /\ args.output = kwargs.output

\* C2: when filter_trajectory has ended, by returning or by raising, no
\* trajectory handle is still open.
C2_HandlesClosedAtEnd ==
    pc \in {"done", "failed"} => (handles.in # "open" /\ handles.out # "open")

\* C3 as stated: with more significant figures the number of retained
\* structures is never smaller.
C3_CountMonotone ==
    Returned =>
        \A n \in 1..(sig - 1) : Len(atoms) >= Len(filter_local_minima(orig, n))

\* C3 as amended: with m > n significant figures at least half as many
\* structures are retained as with n; and when no negative energy has more
\* than m significant digits, one structure per distinct negative energy is
\* retained, which is at least the number retained with n.
C3_CountBounded ==
    Returned =>
        /\ \A n \in 1..(sig - 1) : 2 * Len(atoms) >= Len(filter_local_minima(orig, n))
        /\ (\A e \in NegativeEnergies(orig) : SigDigits(e) <= sig) =>
              /\ Len(atoms) = Cardinality(NegativeEnergies(orig))
              /\ \A n \in 1..(sig - 1) : Len(atoms) >= Len(filter_local_minima(orig, n))

\* two energies that three figures tell apart and fewer figures may not
C3_Witness ==
    /\ Returned
    /\ sig = 3
    /\ NegativeEnergies(orig) = {-2510, -2500}
    /\ Len(atoms) = 2

\* C4: filtering the returned array again, with the same
\* significant_figures, returns the same structures in the same order.
C4_Idempotent ==
    Returned => filter_local_minima(atoms, sig) = atoms

C4_Witness ==
    /\ Returned
    /\ Len(atoms) >= 2
    /\ Len(atoms) < Len(orig)

\* C5: the potential energies of the returned array are non-decreasing.
C5_Ascending ==
    Returned =>
        \A i, j \in 1..Len(atoms) : i < j => atoms[i].energy <= atoms[j].energy

\* unsorted input over several orders of magnitude
C5_Witness ==
    /\ Returned
    /\ Len(atoms) = 3
    /\ \E i \in 1..Len(orig) - 1 : orig[i].energy > orig[i + 1].energy
    /\ \E i, j \in 1..Len(atoms) :
          order_of_magnitudes(atoms[i].energy) # order_of_magnitudes(atoms[j].energy)

\* C6: any two different returned structures have different rounded
\* energies.
C6_DistinctBuckets ==
    Returned =>
        \A i, j \in 1..Len(atoms) : i # j => Bucket(atoms[i]) # Bucket(atoms[j])

\* several structures of one bucket in the input
C6_Witness ==
    /\ Returned
    /\ Len(atoms) >= 2
    /\ \E i, j \in 1..Len(orig) :
          /\ orig[i].energy < orig[j].energy
          /\ orig[j].energy < 0
          /\ Bucket(orig[i]) = Bucket(orig[j])

C8_FirstOfBucket ==
    Returned =>
        /\ \A i \in 1..Len(orig) : orig[i].energy < 0 =>
              \E j \in 1..Len(atoms) :
                  /\ Bucket(atoms[j]) = Bucket(orig[i])
                  /\ atoms[j].energy <= orig[i].energy
                  /\ atoms[j].energy = orig[i].energy => atoms[j].id <= orig[i].id
        /\ (Energy(orig) = Scenario /\ sig = 2) => Energy(atoms) = <<-2500, -1020>>

C8_Witness ==
    /\ Returned
    /\ Energy(orig) = Scenario
    /\ sig = 2
    /\ Energy(atoms) = <<-2500, -1020>>

\* C9: the output is opened for writing only after the input handle was
\* closed; a successful call without output leaves the input file holding
\* the filtered original contents; with a distinct output the input file
\* keeps its contents.
C9_InPlaceOverwrite ==
    /\ handles.out # "unopened" => handles.in = "closed"
    /\ (pc = "done" /\ kwargs.output.t = "none") =>
          /\ args.output = args.input
          /\ files[args.input.s] = FileOf(filter_local_minima(orig, sig))
    /\ (pc = "done" /\ kwargs.output.t = "str" /\ kwargs.output # kwargs.input) =>
          /\ files[args.input.s] = FileOf(orig)
          /\ files[args.output.s] = FileOf(filter_local_minima(orig, sig))

C9_Witness ==
    /\ pc = "done"
    /\ kwargs.output.t = "none"
    /\ Len(orig) = 3
    /\ Len(files["in.traj"].data) = 2
    /\ ~files["out.traj"].exists

\* C10: the returned structures are input structures, each at most once,
\* the list that was read is unchanged, and every negative input structure
\* has exactly one returned structure of its rounded energy.
C10_Selection ==
    /\ handles.in = "open" => files[args.input.s].data = orig
    /\ Returned =>
          /\ \A j \in 1..Len(atoms) : \E i \in 1..Len(orig) : atoms[j] = orig[i]
          /\ \A i, j \in 1..Len(atoms) : i # j => atoms[i].id # atoms[j].id
          /\ \A i \in 1..Len(orig) : orig[i].energy < 0 =>
                Cardinality({j \in 1..Len(atoms) : Bucket(atoms[j]) = Bucket(orig[i])}) = 1

C10_Witness ==
    /\ Returned
    /\ Len(orig) = 3
    /\ Len(atoms) = 2
    /\ \A i \in 1..Len(orig) : orig[i].energy < 0

====
